---- MODULE Spec2Model ----
(***************************************************************************)
(* State-machine model of auditok/io.py: the audio sources                 *)
(* (BufferAudioSource, WaveAudioSource, PyAudioSource, StdinAudioSource)   *)
(* as one source object driven by arbitrary sequences of method calls.     *)
(* Every call records what was called (call) and what it returned or       *)
(* raised (ret), so that the contracts of the methods can be stated over   *)
(* single steps.                                                           *)
(***************************************************************************)
EXTENDS Integers, Sequences, FiniteSets, TLC

(***************************************************************************)
(* Bounds of the model.                                                    *)
(***************************************************************************)
MaxDataLen == 4      \* longest byte string handed to a constructor / set_data / append_data
MaxFrames == 2       \* no call is made that would leave more than this many frames in _buffer
MaxSize == 3         \* largest `size` passed to read
MaxPosition == 3     \* largest `position` passed to set_position
MaxTimeNum == 5      \* largest time passed to set_time_position, in quarters of a second
MaxHandles == 2      \* open is not called with this many file / device handles already held

\* Byte strings: Data(seed, n) is the n bytes seed+1 .. seed+n (all distinct).
Seeds == {0, 16}
Data(seed, n) == [i \in 1..n |-> seed + i]
DataBuffers == { Data(s, n) : s \in Seeds, n \in 0..MaxDataLen }
SamplingRates == {1, 3}
SampleWidths == {1, 2, 3, 4}     \* 3 is not an accepted width
ChannelCounts == {1, 2}          \* 2 is not an accepted channel count
\* Times are exact binary fractions num/4 (exactly representable floats).
\* (TimeDen is a power of two, so that the products below are exact in floating point.)
TimeDen == 2 * 2
Times == { [num |-> k, den |-> TimeDen] : k \in (0 - TimeDen)..MaxTimeNum }

Min(a, b) == IF a < b THEN a ELSE b
NoData == << >>

VARIABLES
    kind,                    \* "none" until a constructor succeeds, then the class of the source
    sampling_rate,           \* AudioSource._sampling_rate
    sample_width,            \* AudioSource._sample_width
    channels,                \* AudioSource._channels
    buffer,                  \* BufferAudioSource._buffer
    current_position_bytes,  \* BufferAudioSource._current_position_bytes
    is_open,                 \* BufferAudioSource._is_open / StdinAudioSource._is_open
    audio_stream,            \* WaveAudioSource / PyAudioSource ._audio_stream: None or a handle
    file,                    \* the frames of the wave file behind a WaveAudioSource
    stdin,                   \* the bytes not yet read from standard input
    handles,                 \* file / device handles acquired and not yet closed
    call,                    \* the last call made: its name and arguments
    ret,                     \* what the last call returned ("None", "data") or raised
    hist,                    \* history of the calls made (Spec does not record it)
    disk,                    \* the output file of to_file: how it was written and what it holds
    request,                 \* the arguments of the last to_file / _load_* / resolver call
    resolved,                \* what _get_audio_parameters returned to the last caller
    player                   \* the PyAudioPlayer: its stream and the progress of play()

vars == <<kind, sampling_rate, sample_width, channels, buffer,
          current_position_bytes, is_open, audio_stream, file, stdin, handles,
          call, ret, hist, disk, request, resolved, player>>

params == <<kind, sampling_rate, sample_width, channels>>
bufferState == <<buffer, current_position_bytes>>
streamState == <<audio_stream, file, stdin, handles>>
sourceState == <<params, bufferState, is_open, streamState>>
fileState == <<disk, request, resolved>>

\* _audio_stream: None, or an open handle and how many bytes were read through it.
NoStream == [is_none |-> TRUE, offset |-> 0]
Stream(offset) == [is_none |-> FALSE, offset |-> offset]

Call(op, arg, data) == [op |-> op, arg |-> arg, data |-> data, width |-> 0, chans |-> 0]
Returned(k, data) == [kind |-> k, data |-> data]
None == Returned("None", NoData)
Raised(exc) == Returned(exc, NoData)

\* AudioParameterError is a subclass of AudioIOError (io.py:59-64); IOError and
\* ValueError are Python's built-in exceptions.
IsParameterError(r) == r.kind = "AudioParameterError"
IsIOError(r) == r.kind \in {"AudioIOError", "AudioParameterError", "IOError"}
IsError(r) == r.kind \in {"AudioIOError", "AudioParameterError", "IOError", "ValueError"}

(***************************************************************************)
(* Pure helpers.                                                           *)
(***************************************************************************)
\* Python's s[i:j] for 0 <= i, 0 <= j.
Slice(s, i, j) == SubSeq(s, Min(i, Len(s)) + 1, Min(j, Len(s)))

\* check_audio_data: TRUE when the data passes, FALSE when AudioParameterError is raised.
\* Faulty variant: the length check is skipped.
check_audio_data_skipped(data, width, chans) == TRUE
check_audio_data(data, width, chans) ==
    LET sample_size_bytes == width * chans
        nb_samples == Len(data) \div sample_size_bytes
    IN  nb_samples * sample_size_bytes = Len(data)

\* AudioSource.__init__: TRUE when the parameters are accepted.
\* Faulty variant: the number of channels is not validated.
AudioSource_init_any_channels(width, chans) == width \in {1, 2, 4}

AudioSource_init(width, chans) == width \in {1, 2, 4} /\ chans = 1

sample_size_all_channels == sample_width * channels

\* The calls the model makes: data that is rejected, or that leaves at most
\* MaxFrames frames in the buffer.
WithinBounds(length, width, chans) ==
    \/ ~AudioSource_init(width, chans)
    \/ length % (width * chans) # 0
    \/ length <= MaxFrames * width * chans

\* The slice BufferAudioSource.read takes from the buffer.
\* Faulty variant: `size` is taken as a number of bytes, not of frames.
read_data_bytes(buf, pos, size, frame) == Slice(buf, pos, pos + size)
read_data(buf, pos, size, frame) ==
    LET bytes_to_read == frame * size
    IN  Slice(buf, pos, pos + bytes_to_read)

\* The byte position set_position stores for a position >= 0.
\* Faulty variants: no clamping to the end; the two branches swapped.
clamp_position_unclamped(position, frame, length) == position * frame
clamp_position_swapped(position, frame, length) ==
    LET p == position * frame
    IN  IF p < length THEN length ELSE p
clamp_position(position, frame, length) ==
    LET p == position * frame
    IN  IF p < length THEN p ELSE length

\* The buffer append_data stores: self._buffer += data_buffer.
\* Faulty variant: `=` instead of `+=`.
appended_replaced(buf, data_buffer) == data_buffer
appended(buf, data_buffer) == buf \o data_buffer

\* Python's int() of the rational n/d (d > 0): truncation towards zero.
IntTrunc(n, d) == IF n >= 0 THEN n \div d ELSE 0 - ((0 - n) \div d)
\* Python's round() of the rational n/d (d > 0): nearest integer, ties to even.
Round(n, d) ==
    LET f == n \div d             \* floor
        r == n - f * d            \* 0 <= r < d
    IN  IF 2 * r < d THEN f
        ELSE IF 2 * r > d THEN f + 1
        ELSE IF f % 2 = 0 THEN f ELSE f + 1

\* set_time_position: the sample position computed from a time.
time_to_position(rate, t) == IntTrunc(rate * t.num, t.den)

\* get_position and get_time_position (a rational num/den).  The byte position is
\* always a whole number of frames (C2, C9), so the quotient is exact.
get_position == current_position_bytes \div sample_size_all_channels
get_time_position ==
    [num |-> current_position_bytes, den |-> sample_size_all_channels * sampling_rate]

(***************************************************************************)
(* History of a call sequence.                                             *)
(*   first_*      the first read that did not raise (the first read after  *)
(*                the initial open): its size, what it returned, whether   *)
(*                it was made at position 0, and whether a call followed   *)
(*   after_rewind the call before the last one was rewind()                *)
(*   reopen       "closed" after close(), "reopened" after the open() that *)
(*                follows it, "read" after the first read that follows     *)
(*                that; "idle" otherwise                                   *)
(*   moved        set_position / set_time_position was called since the    *)
(*                close()                                                  *)
(*   was_open     the source was open when the last call was made          *)
(*   run          "clean" from an open() as long as only reads of size     *)
(*                >= 1 follow it, "dirty" once another call was made,      *)
(*                "none" before the open() and after close()               *)
(*   from, acc, reads, ended, resumed                                      *)
(*                of a clean run: the position at its open(), the          *)
(*                concatenation of the data its reads returned, how many   *)
(*                reads returned data, whether one returned the end-marker *)
(*                and whether a read returned data after that              *)
(***************************************************************************)
NoHistory ==
    [first_set |-> FALSE, first_size |-> 0, first_ret |-> None, first_at_start |-> FALSE,
     again |-> FALSE, after_rewind |-> FALSE, reopen |-> "idle", moved |-> FALSE,
     was_open |-> FALSE, run |-> "none", from |-> 0, acc |-> NoData, reads |-> 0,
     ended |-> FALSE, resumed |-> FALSE]

\* The history after a step, for the calls of one rewind scenario.
RewindHistory ==
    LET reads == call'.op = "read" /\ ~IsError(ret')
    IN  [hist EXCEPT
            !.first_set = hist.first_set \/ reads,
            !.first_size = IF ~hist.first_set /\ reads THEN call'.arg ELSE @,
            !.first_ret = IF ~hist.first_set /\ reads THEN ret' ELSE @,
            !.first_at_start =
                IF ~hist.first_set /\ reads THEN current_position_bytes = 0 ELSE @,
            !.again = hist.first_set,
            !.after_rewind = (call.op = "rewind")]

\* The history after a step, for close() / open() / read sequences.
ReopenHistory ==
    LET op == call'.op
        positioning == op \in {"set_position", "set_time_position"}
    IN  [hist EXCEPT
            !.reopen =
                IF op = "close" THEN "closed"
                ELSE IF op = "open" /\ hist.reopen \in {"closed", "reopened"} THEN "reopened"
                ELSE IF op = "read" /\ IsError(ret') /\ hist.reopen = "closed" THEN "closed"
                ELSE IF op = "read" /\ hist.reopen = "reopened" THEN "read"
                ELSE IF op = "read" \/ hist.reopen \in {"read", "idle"} THEN "idle"
                ELSE hist.reopen,
            !.moved =
                IF op = "close" THEN FALSE
                ELSE IF hist.reopen \in {"closed", "reopened"} THEN hist.moved \/ positioning
                ELSE hist.moved]

(***************************************************************************)
(* Files, keyword arguments and the player before anything was called.     *)
(***************************************************************************)
\* A keyword argument: absent from the dictionary, or a value of some Python
\* type.  val is the number itself (int, float: 0 for 0.0) or the length
\* (str); Python's truth value of an argument is that val is not 0.
Absent == [type |-> "absent", val |-> 0]
PyInt(n) == [type |-> "int", val |-> n]
PyFloat(n) == [type |-> "float", val |-> n]
PyStr(n) == [type |-> "str", val |-> n]
PyNone == [type |-> "None", val |-> 0]

NoKwargs ==
    [sampling_rate |-> Absent, sr |-> Absent, sample_width |-> Absent, sw |-> Absent,
     channels |-> Absent, ch |-> Absent, use_channel |-> Absent, uc |-> Absent]
\* A file name is a stem and an extension (written without its dot, "" when
\* the name has none).  The audio format None is written "None".
Filename(ext) == [stem |-> "out", ext |-> ext]
NoFile ==
    [how |-> "none", file |-> Filename(""), fmt |-> "None", data |-> NoData,
     rate |-> 0, width |-> 0, chans |-> 0]
NoRequest ==
    [audio_format |-> "None", file |-> Filename(""), kwargs |-> NoKwargs,
     with_pydub |-> FALSE, sampling_rate |-> PyNone, sample_width |-> PyNone,
     channels |-> PyNone, use_channel |-> PyNone, large_file |-> FALSE]
NoParameters ==
    [sampling_rate |-> PyNone, sample_width |-> PyNone, channels |-> PyNone,
     use_channel |-> PyNone]
NoPlayer ==
    [pc |-> "none", sampling_rate |-> 0, sample_width |-> 0, channels |-> 0,
     stopped |-> FALSE, data |-> NoData, start |-> 0, written |-> NoData, chunk |-> NoData,
     odd |-> FALSE]

(***************************************************************************)
(* Initial state: no source has been constructed yet.                      *)
(***************************************************************************)
Init ==
    /\ kind = "none"
    /\ sampling_rate = 0
    /\ sample_width = 0
    /\ channels = 0
    /\ buffer = NoData
    /\ current_position_bytes = 0
    /\ is_open = FALSE
    /\ audio_stream = NoStream
    /\ file = NoData
    /\ stdin = NoData
    /\ handles = 0
    /\ call = Call("none", 0, NoData)
    /\ ret = None
    /\ hist = NoHistory
    /\ disk = NoFile
    /\ request = NoRequest
    /\ resolved = NoParameters
    /\ player = NoPlayer

(***************************************************************************)
(* BufferAudioSource                                                       *)
(***************************************************************************)
BufferAudioSource_init(data_buffer, rate, width, chans) ==
    /\ kind = "none"
    /\ UNCHANGED streamState
    /\ WithinBounds(Len(data_buffer), width, chans)
    /\ call' = [Call("BufferAudioSource", rate, data_buffer) EXCEPT
                    !.width = width, !.chans = chans]
    /\ IF AudioSource_init(width, chans) /\ check_audio_data(data_buffer, width, chans)
       THEN /\ kind' = "buffer"
            /\ sampling_rate' = rate
            /\ sample_width' = width
            /\ channels' = chans
            /\ buffer' = data_buffer
            /\ current_position_bytes' = 0
            /\ is_open' = FALSE
            /\ ret' = None
       ELSE /\ ret' = Raised("AudioParameterError")
            /\ UNCHANGED <<params, buffer, current_position_bytes, is_open>>

BufferAudioSource_open ==
    /\ kind = "buffer"
    /\ UNCHANGED streamState
    /\ call' = Call("open", 0, NoData)
    /\ is_open' = TRUE
    /\ ret' = None
    /\ UNCHANGED <<params, buffer, current_position_bytes>>

\* Faulty variant: close without the rewind.
BufferAudioSource_close_norewind ==
    /\ kind = "buffer"
    /\ UNCHANGED streamState
    /\ call' = Call("close", 0, NoData)
    /\ is_open' = FALSE
    /\ ret' = None
    /\ UNCHANGED <<params, buffer, current_position_bytes>>

\* close: clears the flag, then rewind() = set_position(0).
BufferAudioSource_close ==
    /\ kind = "buffer"
    /\ UNCHANGED streamState
    /\ call' = Call("close", 0, NoData)
    /\ is_open' = FALSE
    /\ current_position_bytes' =
           clamp_position(0, sample_size_all_channels, Len(buffer))
    /\ ret' = None
    /\ UNCHANGED <<params, buffer>>

BufferAudioSource_read(size) ==
    /\ kind = "buffer"
    /\ UNCHANGED streamState
    /\ call' = Call("read", size, NoData)
    /\ IF ~is_open
       THEN /\ ret' = Raised("AudioIOError")
            /\ UNCHANGED current_position_bytes
       ELSE LET data == read_data(buffer, current_position_bytes, size,
                                  sample_size_all_channels)
            IN  IF data # NoData
                THEN /\ current_position_bytes' = current_position_bytes + Len(data)
                     /\ ret' = Returned("data", data)
                ELSE /\ ret' = None
                     /\ UNCHANGED current_position_bytes
    /\ UNCHANGED <<params, buffer, is_open>>

set_data(data_buffer) ==
    /\ kind = "buffer"
    /\ UNCHANGED streamState
    /\ WithinBounds(Len(data_buffer), sample_width, channels)
    /\ call' = Call("set_data", 0, data_buffer)
    /\ IF check_audio_data(data_buffer, sample_width, channels)
       THEN /\ buffer' = data_buffer
            /\ current_position_bytes' = 0
            /\ ret' = None
       ELSE /\ ret' = Raised("AudioParameterError")
            /\ UNCHANGED <<buffer, current_position_bytes>>
    /\ UNCHANGED <<params, is_open>>

append_data(data_buffer) ==
    /\ kind = "buffer"
    /\ UNCHANGED streamState
    /\ WithinBounds(Len(buffer) + Len(data_buffer), sample_width, channels)
    /\ call' = Call("append_data", 0, data_buffer)
    /\ IF check_audio_data(data_buffer, sample_width, channels)
       THEN /\ buffer' = appended(buffer, data_buffer)
            /\ ret' = None
       ELSE /\ ret' = Raised("AudioParameterError")
            /\ UNCHANGED buffer
    /\ UNCHANGED <<params, current_position_bytes, is_open>>

\* The body of set_position, shared by rewind, close and set_time_position.
SetPosition(position) ==
    IF position < 0
    THEN /\ ret' = Raised("ValueError")
         /\ UNCHANGED current_position_bytes
    ELSE /\ current_position_bytes' =
                clamp_position(position, sample_size_all_channels, Len(buffer))
         /\ ret' = None

set_position(position) ==
    /\ kind = "buffer"
    /\ UNCHANGED streamState
    /\ call' = Call("set_position", position, NoData)
    /\ SetPosition(position)
    /\ UNCHANGED <<params, buffer, is_open>>

rewind ==
    /\ kind = "buffer"
    /\ UNCHANGED streamState
    /\ call' = Call("rewind", 0, NoData)
    /\ SetPosition(0)
    /\ UNCHANGED <<params, buffer, is_open>>

set_time_position(time_position) ==
    /\ kind = "buffer"
    /\ UNCHANGED streamState
    /\ call' = Call("set_time_position", time_position.num, NoData)
    /\ SetPosition(time_to_position(sampling_rate, time_position))
    /\ UNCHANGED <<params, buffer, is_open>>

(***************************************************************************)
(* WaveAudioSource: the file holds a header (rate, width, chans) and       *)
(* whole frames.                                                           *)
(***************************************************************************)
WaveFiles ==
    { [rate |-> r, width |-> w, chans |-> c, frames |-> d] :
        r \in SamplingRates, w \in SampleWidths, c \in ChannelCounts, d \in DataBuffers }

\* Wave_read.readframes(size) at byte offset `offset`.
readframes(frames, offset, size, frame) == Slice(frames, offset, offset + size * frame)

\* wave.open, AudioSource.__init__, stream.close(): when __init__ raises, the
\* close that follows it is not reached, and the file stays open until the
\* interpreter collects the stream object (`collected`: it already has).
WaveAudioSource_init(f, collected) ==
    /\ kind = "none"
    /\ Len(f.frames) % (f.width * f.chans) = 0
    /\ Len(f.frames) <= MaxFrames * f.width * f.chans
    /\ handles < MaxHandles
    /\ call' = [Call("WaveAudioSource", f.rate, f.frames) EXCEPT
                    !.width = f.width, !.chans = f.chans]
    /\ IF AudioSource_init(f.width, f.chans)
       THEN /\ kind' = "wave"
            /\ sampling_rate' = f.rate
            /\ sample_width' = f.width
            /\ channels' = f.chans
            /\ file' = f.frames
            /\ audio_stream' = NoStream
            /\ ret' = None
            /\ UNCHANGED <<stdin, handles>>
       ELSE /\ handles' = IF collected THEN handles ELSE handles + 1
            /\ ret' = Raised("AudioParameterError")
            /\ UNCHANGED <<params, audio_stream, file, stdin>>
    /\ UNCHANGED <<bufferState, is_open>>

WaveAudioSource_open ==
    /\ kind = "wave"
    /\ call' = Call("open", 0, NoData)
    /\ IF audio_stream.is_none
       THEN /\ audio_stream' = Stream(0)
            /\ handles' = handles + 1
       ELSE UNCHANGED <<audio_stream, handles>>
    /\ ret' = None
    /\ UNCHANGED <<params, bufferState, is_open, file, stdin>>

\* Faulty variant: the handle is released without testing that there is one.
WaveAudioSource_close_unchecked ==
    /\ kind = "wave"
    /\ call' = Call("close", 0, NoData)
    /\ audio_stream' = NoStream
    /\ handles' = handles - 1
    /\ ret' = None
    /\ UNCHANGED <<params, bufferState, is_open, file, stdin>>

WaveAudioSource_close ==
    /\ kind = "wave"
    /\ call' = Call("close", 0, NoData)
    /\ IF ~audio_stream.is_none
       THEN /\ audio_stream' = NoStream
            /\ handles' = handles - 1
       ELSE UNCHANGED <<audio_stream, handles>>
    /\ ret' = None
    /\ UNCHANGED <<params, bufferState, is_open, file, stdin>>

WaveAudioSource_read(size) ==
    /\ kind = "wave"
    /\ call' = Call("read", size, NoData)
    /\ IF audio_stream.is_none
       THEN /\ ret' = Raised("IOError")
            /\ UNCHANGED audio_stream
       ELSE LET data == readframes(file, audio_stream.offset, size,
                                   sample_size_all_channels)
            IN  /\ audio_stream' = Stream(audio_stream.offset + Len(data))
                /\ ret' = IF Len(data) < 1 THEN None ELSE Returned("data", data)
    /\ UNCHANGED <<params, bufferState, is_open, file, stdin, handles>>

(***************************************************************************)
(* PyAudioSource: the device delivers `size` frames while it is active.    *)
(***************************************************************************)
PyAudioSource_init(rate, width, chans) ==
    /\ kind = "none"
    /\ call' = [Call("PyAudioSource", rate, NoData) EXCEPT
                    !.width = width, !.chans = chans]
    /\ IF AudioSource_init(width, chans)
       THEN /\ kind' = "pyaudio"
            /\ sampling_rate' = rate
            /\ sample_width' = width
            /\ channels' = chans
            /\ audio_stream' = NoStream
            /\ ret' = None
       ELSE /\ ret' = Raised("AudioParameterError")
            /\ UNCHANGED <<params, audio_stream>>
    /\ UNCHANGED <<bufferState, is_open, file, stdin, handles>>

\* open replaces _audio_stream by a new device stream, whatever it held.
PyAudioSource_open ==
    /\ kind = "pyaudio"
    /\ handles < MaxHandles
    /\ call' = Call("open", 0, NoData)
    /\ audio_stream' = Stream(0)
    /\ handles' = handles + 1
    /\ ret' = None
    /\ UNCHANGED <<params, bufferState, is_open, file, stdin>>

PyAudioSource_close ==
    /\ kind = "pyaudio"
    /\ call' = Call("close", 0, NoData)
    /\ IF ~audio_stream.is_none
       THEN /\ audio_stream' = NoStream
            /\ handles' = handles - 1
       ELSE UNCHANGED <<audio_stream, handles>>
    /\ ret' = None
    /\ UNCHANGED <<params, bufferState, is_open, file, stdin>>

PyAudioSource_read(size, is_active, seed) ==
    /\ kind = "pyaudio"
    /\ call' = Call("read", size, NoData)
    /\ IF audio_stream.is_none
       THEN ret' = Raised("IOError")
       ELSE IF is_active
            THEN LET data == Data(seed, size * sample_size_all_channels)
                 IN  ret' = IF Len(data) < 1 THEN None ELSE Returned("data", data)
            ELSE ret' = None
    /\ UNCHANGED <<params, bufferState, is_open, streamState>>

(***************************************************************************)
(* StdinAudioSource: standard input holds any number of bytes.             *)
(***************************************************************************)
StdinAudioSource_init(rate, width, chans, input) ==
    /\ kind = "none"
    /\ call' = [Call("StdinAudioSource", rate, NoData) EXCEPT
                    !.width = width, !.chans = chans]
    /\ IF AudioSource_init(width, chans)
       THEN /\ kind' = "stdin"
            /\ sampling_rate' = rate
            /\ sample_width' = width
            /\ channels' = chans
            /\ is_open' = FALSE
            /\ stdin' = input
            /\ ret' = None
       ELSE /\ ret' = Raised("AudioParameterError")
            /\ UNCHANGED <<params, is_open, stdin>>
    /\ UNCHANGED <<bufferState, audio_stream, file, handles>>

StdinAudioSource_open ==
    /\ kind = "stdin"
    /\ call' = Call("open", 0, NoData)
    /\ is_open' = TRUE
    /\ ret' = None
    /\ UNCHANGED <<params, bufferState, streamState>>

StdinAudioSource_close ==
    /\ kind = "stdin"
    /\ call' = Call("close", 0, NoData)
    /\ is_open' = FALSE
    /\ ret' = None
    /\ UNCHANGED <<params, bufferState, streamState>>

\* Faulty variant: read without the test of _is_open.
StdinAudioSource_read_unchecked(size) ==
    /\ kind = "stdin"
    /\ call' = Call("read", size, NoData)
    /\ LET to_read == size * sample_width * channels
           data == Slice(stdin, 0, to_read)
       IN  /\ stdin' = Slice(stdin, to_read, Len(stdin))
           /\ ret' = IF Len(data) < 1 THEN None ELSE Returned("data", data)
    /\ UNCHANGED <<params, bufferState, is_open, audio_stream, file, handles>>

\* sys.stdin.buffer.read(to_read): to_read bytes, or what is left before end-of-file.
StdinAudioSource_read(size) ==
    /\ kind = "stdin"
    /\ call' = Call("read", size, NoData)
    /\ IF ~is_open
       THEN /\ ret' = Raised("IOError")
            /\ UNCHANGED stdin
       ELSE LET to_read == size * sample_width * channels
                data == Slice(stdin, 0, to_read)
            IN  /\ stdin' = Slice(stdin, to_read, Len(stdin))
                /\ ret' = IF Len(data) < 1 THEN None ELSE Returned("data", data)
    /\ UNCHANGED <<params, bufferState, is_open, audio_stream, file, handles>>

(***************************************************************************)
(* Specifications.  Spec: every call on every kind of source; the history  *)
(* is not recorded.                                                        *)
(***************************************************************************)
Keep == UNCHANGED <<hist, fileState, player>>
Rewinds == hist' = RewindHistory /\ UNCHANGED <<fileState, player>>
Reopens == hist' = ReopenHistory /\ UNCHANGED <<fileState, player>>

Next ==
    \/ \E d \in DataBuffers, r \in SamplingRates, w \in SampleWidths, c \in ChannelCounts :
          BufferAudioSource_init(d, r, w, c) /\ Keep
    \/ BufferAudioSource_open /\ Keep
    \/ BufferAudioSource_close /\ Keep
    \/ \E size \in 0..MaxSize : BufferAudioSource_read(size) /\ Keep
    \/ \E p \in (0 - 1)..MaxPosition : set_position(p) /\ Keep
    \/ rewind /\ Keep
    \/ \E t \in Times : set_time_position(t) /\ Keep
    \/ \E d \in DataBuffers : set_data(d) /\ Keep
    \/ \E d \in DataBuffers : append_data(d) /\ Keep
    \/ \E f \in WaveFiles, g \in BOOLEAN : WaveAudioSource_init(f, g) /\ Keep
    \/ WaveAudioSource_open /\ Keep
    \/ WaveAudioSource_close /\ Keep
    \/ \E size \in 0..MaxSize : WaveAudioSource_read(size) /\ Keep
    \/ \E r \in SamplingRates, w \in SampleWidths, c \in ChannelCounts :
          PyAudioSource_init(r, w, c) /\ Keep
    \/ PyAudioSource_open /\ Keep
    \/ PyAudioSource_close /\ Keep
    \/ \E size \in 0..MaxSize, a \in BOOLEAN, s \in Seeds :
          PyAudioSource_read(size, a, s) /\ Keep
    \/ \E r \in SamplingRates, w \in SampleWidths, c \in ChannelCounts, d \in DataBuffers :
          StdinAudioSource_init(r, w, c, d) /\ Keep
    \/ StdinAudioSource_open /\ Keep
    \/ StdinAudioSource_close /\ Keep
    \/ \E size \in 0..MaxSize : StdinAudioSource_read(size) /\ Keep

Spec == Init /\ [][Next]_vars

\* SpecRewind: a BufferAudioSource under open, close, read and positioning calls
\* (its buffer is the one it was constructed with), with the history recorded.
NextRewind ==
    \/ \E d \in DataBuffers, r \in SamplingRates, w \in SampleWidths, c \in ChannelCounts :
          BufferAudioSource_init(d, r, w, c) /\ Rewinds
    \/ BufferAudioSource_open /\ Rewinds
    \/ BufferAudioSource_close /\ Rewinds
    \/ \E size \in 0..MaxSize : BufferAudioSource_read(size) /\ Rewinds
    \/ \E p \in (0 - 1)..MaxPosition : set_position(p) /\ Rewinds
    \/ rewind /\ Rewinds
    \/ \E t \in Times : set_time_position(t) /\ Rewinds

SpecRewind == Init /\ [][NextRewind]_vars

\* SpecReopen: a BufferAudioSource under every call it has, with the history recorded.
NextReopen ==
    \/ \E d \in DataBuffers, r \in SamplingRates, w \in SampleWidths, c \in ChannelCounts :
          BufferAudioSource_init(d, r, w, c) /\ Reopens
    \/ BufferAudioSource_open /\ Reopens
    \/ BufferAudioSource_close /\ Reopens
    \/ \E size \in 0..MaxSize : BufferAudioSource_read(size) /\ Reopens
    \/ \E p \in (0 - 1)..MaxPosition : set_position(p) /\ Reopens
    \/ rewind /\ Reopens
    \/ \E t \in Times : set_time_position(t) /\ Reopens
    \/ \E d \in DataBuffers : set_data(d) /\ Reopens
    \/ \E d \in DataBuffers : append_data(d) /\ Reopens

SpecReopen == Init /\ [][NextReopen]_vars

(***************************************************************************)
(* Properties.                                                             *)
(***************************************************************************)
FrameSize == sample_width * channels
TotalSamples == Len(buffer) \div FrameSize
IsBuffer == kind = "buffer"
\* The source is not open: never opened, or closed since the last open.
NotOpen == IF kind \in {"buffer", "stdin"} THEN ~is_open ELSE audio_stream.is_none

\* C1: on an open BufferAudioSource, read(size) with size >= 1 returns the bytes
\* buffer[pos : pos + min(size, remaining) * frame_size], advances the position by
\* the number of bytes returned, and returns None when the position is the
\* buffer's length.
C1_ReadWindow ==
    [][ (IsBuffer /\ is_open /\ call'.op = "read" /\ call'.arg >= 1) =>
            LET pos == current_position_bytes
                remaining == (Len(buffer) - pos) \div FrameSize
                n == Min(call'.arg, remaining)
            IN  /\ IF pos = Len(buffer)
                   THEN ret' = None
                   ELSE ret' = Returned("data", SubSeq(buffer, pos + 1, pos + n * FrameSize))
                /\ current_position_bytes' = pos + Len(ret'.data) ]_vars

\* A read that asked for more frames than were left and got exactly the rest.
C1_Witness ==
    /\ IsBuffer /\ call.op = "read" /\ ret.kind = "data"
    /\ Len(ret.data) < call.arg * FrameSize
    /\ Len(ret.data) >= FrameSize
    /\ current_position_bytes = Len(buffer)

\* C2: in every reachable state of a BufferAudioSource, 0 <= position <= total_samples.
C2_PositionInRange ==
    IsBuffer =>
        /\ 0 <= current_position_bytes
        /\ current_position_bytes <= TotalSamples * FrameSize

\* A set_position beyond the end of a non-empty buffer left the position at the end.
C2_Witness ==
    /\ IsBuffer /\ call.op = "set_position" /\ call.arg > TotalSamples
    /\ TotalSamples > 0
    /\ current_position_bytes = TotalSamples * FrameSize

\* C3: for every kind of source, read on a source that is not open raises an I/O
\* error, returns no data and leaves position, buffer, handle and open flag unchanged.
C3_ReadNotOpen ==
    [][ (kind # "none" /\ NotOpen /\ call'.op = "read") =>
            /\ IsIOError(ret')
            /\ ret'.data = NoData
            /\ UNCHANGED <<buffer, current_position_bytes, is_open, audio_stream,
                           file, stdin, handles>> ]_vars

\* A read on a closed StdinAudioSource with input pending raised.
C3_Witness ==
    /\ kind = "stdin" /\ ~is_open /\ call.op = "read" /\ call.arg >= 1
    /\ ret.kind = "IOError"
    /\ Len(stdin) > 0

\* C4: set_position(p) with p < 0 raises AudioParameterError and leaves the
\* position unchanged.
C4_NegativePosition ==
    [][ (IsBuffer /\ call'.op = "set_position" /\ call'.arg < 0) =>
            /\ IsParameterError(ret')
            /\ current_position_bytes' = current_position_bytes ]_vars

\* C5: set_position(p) with p >= 0 raises nothing and sets the position to
\* min(p, total_samples); after a p beyond the end, get_position() is total_samples
\* and the next read returns None.
C5_SetPositionClamps ==
    [][ /\ (IsBuffer /\ call'.op = "set_position" /\ call'.arg >= 0) =>
               /\ ~IsError(ret')
               /\ current_position_bytes' = Min(call'.arg, TotalSamples) * FrameSize
        /\ (IsBuffer /\ is_open /\ call.op = "set_position" /\ call.arg > TotalSamples
              /\ call'.op = "read") =>
               /\ get_position = TotalSamples
               /\ ret' = None ]_vars

\* An open source on which set_position went beyond the end of a non-empty buffer.
C5_Witness ==
    /\ IsBuffer /\ is_open /\ call.op = "set_position" /\ call.arg > TotalSamples
    /\ TotalSamples > 0
    /\ ret = None
    /\ get_position = TotalSamples

\* C6: set_time_position(t) with t >= 0 sets the position to round(sampling_rate * t)
\* samples, clamped to the buffer; when that lies within the buffer,
\* get_time_position() is then round(sampling_rate * t) / sampling_rate.
C6_RoundedTimePosition ==
    (IsBuffer /\ call.op = "set_time_position" /\ call.arg >= 0) =>
        LET rounded == Round(sampling_rate * call.arg, TimeDen)
        IN  /\ current_position_bytes = Min(rounded, TotalSamples) * FrameSize
            /\ rounded <= TotalSamples =>
                  get_time_position.num * sampling_rate = rounded * get_time_position.den

\* What a read of `size` frames at position 0 returns.
ReadFromStart(size) ==
    LET n == Min(size * FrameSize, Len(buffer))
    IN  IF n = 0 THEN None ELSE Returned("data", SubSeq(buffer, 1, n))

\* The read(n) that follows a rewind(), n being the size of the first read after
\* the initial open().
ReadAfterRewind ==
    /\ IsBuffer /\ call.op = "read" /\ ~IsError(ret)
    /\ hist.after_rewind
    /\ hist.first_set /\ call.arg = hist.first_size

\* C7 as stated: rewind() sets get_position() to 0, and the next read(n) returns
\* what read(n) returned as the first read after the initial open().
C7_Original ==
    /\ (IsBuffer /\ call.op = "rewind") => get_position = 0
    /\ ReadAfterRewind => ret = hist.first_ret

\* C7 as amended: the same, when the first read after the initial open() was made
\* at position 0.
C7_RewindReplays ==
    /\ (IsBuffer /\ call.op = "rewind") => get_position = 0
    /\ (ReadAfterRewind /\ hist.first_at_start) => ret = hist.first_ret

\* A read after rewind() that returned again the data of an earlier first read.
C7_Witness ==
    /\ ReadAfterRewind /\ hist.first_at_start /\ hist.again
    /\ ret.kind = "data"
    /\ Len(ret.data) < Len(buffer)

\* C8: append_data(b) with a frame-aligned b makes the buffer old_buffer + b and
\* leaves position and open flag unchanged; set_data(b) with a frame-aligned b makes
\* the buffer b, the position 0, and leaves the open flag unchanged.
C8_AppendAndSetData ==
    [][ /\ (IsBuffer /\ call'.op = "append_data" /\ Len(call'.data) % FrameSize = 0) =>
               /\ buffer' = buffer \o call'.data
               /\ Len(buffer') = Len(buffer) + Len(call'.data)
               /\ current_position_bytes' = current_position_bytes
               /\ is_open' = is_open
        /\ (IsBuffer /\ call'.op = "set_data" /\ Len(call'.data) % FrameSize = 0) =>
               /\ buffer' = call'.data
               /\ current_position_bytes' = 0
               /\ is_open' = is_open ]_vars

\* Data was appended to a non-empty buffer of an open source that had been read from.
C8_Witness ==
    /\ IsBuffer /\ is_open /\ call.op = "append_data" /\ ret = None
    /\ Len(call.data) > 0
    /\ Len(buffer) > Len(call.data)
    /\ current_position_bytes > 0

\* C9: for sample_width in {1, 2, 4}, a buffer whose length is not a multiple of
\* sample_width * channels is rejected with AudioParameterError by the constructor,
\* set_data and append_data; a rejected set_data or append_data leaves buffer and
\* position unchanged; the buffer length is always a multiple of the frame size.
C9_Alignment ==
    [][ /\ (call'.op = "BufferAudioSource" /\ call'.width \in {1, 2, 4}
              /\ Len(call'.data) % (call'.width * call'.chans) # 0) =>
               /\ IsParameterError(ret')
               /\ kind' = "none"
        /\ (IsBuffer /\ call'.op \in {"set_data", "append_data"}
              /\ Len(call'.data) % FrameSize # 0) =>
               /\ IsParameterError(ret')
               /\ buffer' = buffer
               /\ current_position_bytes' = current_position_bytes
        /\ kind' = "buffer" => Len(buffer') % (sample_width' * channels') = 0 ]_vars

\* An append_data of misaligned data was rejected on a source that holds data.
C9_Witness ==
    /\ IsBuffer /\ call.op = "append_data" /\ IsParameterError(ret)
    /\ Len(call.data) % FrameSize # 0
    /\ Len(buffer) > 0
    /\ sample_width > 1

\* C10 as stated: close() clears the open flag and rewinds to position 0, and the
\* first read after an open() that follows a close() returns the bytes at offset 0.
C10_Original ==
    /\ (IsBuffer /\ call.op = "close") => (~is_open /\ current_position_bytes = 0)
    /\ (IsBuffer /\ hist.reopen = "read") => ret = ReadFromStart(call.arg)

\* C10 as amended: the same, when no set_position or set_time_position call was made
\* between the close() and that read.
C10_ReopenFromStart ==
    /\ (IsBuffer /\ call.op = "close") => (~is_open /\ current_position_bytes = 0)
    /\ (IsBuffer /\ hist.reopen = "read" /\ ~hist.moved) => ret = ReadFromStart(call.arg)

\* The first read after close() and open() returned the head of a longer buffer.
C10_Witness ==
    /\ IsBuffer /\ hist.reopen = "read" /\ ~hist.moved
    /\ ret.kind = "data"
    /\ Len(ret.data) < Len(buffer)

(***************************************************************************)
(* SpecLifecycle: every call on every kind of source, recording whether    *)
(* the source was open when the call was made.                             *)
(***************************************************************************)
LifecycleHistory == [hist EXCEPT !.was_open = (kind # "none" /\ ~NotOpen)]
Lifecycle == hist' = LifecycleHistory /\ UNCHANGED <<fileState, player>>

NextLifecycle ==
    \/ \E d \in DataBuffers, r \in SamplingRates, w \in SampleWidths, c \in ChannelCounts :
          BufferAudioSource_init(d, r, w, c) /\ Lifecycle
    \/ BufferAudioSource_open /\ Lifecycle
    \/ BufferAudioSource_close /\ Lifecycle
    \/ \E size \in 0..MaxSize : BufferAudioSource_read(size) /\ Lifecycle
    \/ \E p \in (0 - 1)..MaxPosition : set_position(p) /\ Lifecycle
    \/ rewind /\ Lifecycle
    \/ \E t \in Times : set_time_position(t) /\ Lifecycle
    \/ \E d \in DataBuffers : set_data(d) /\ Lifecycle
    \/ \E d \in DataBuffers : append_data(d) /\ Lifecycle
    \/ \E f \in WaveFiles, g \in BOOLEAN : WaveAudioSource_init(f, g) /\ Lifecycle
    \/ WaveAudioSource_open /\ Lifecycle
    \/ WaveAudioSource_close /\ Lifecycle
    \/ \E size \in 0..MaxSize : WaveAudioSource_read(size) /\ Lifecycle
    \/ \E r \in SamplingRates, w \in SampleWidths, c \in ChannelCounts :
          PyAudioSource_init(r, w, c) /\ Lifecycle
    \/ PyAudioSource_open /\ Lifecycle
    \/ PyAudioSource_close /\ Lifecycle
    \/ \E size \in 0..MaxSize, a \in BOOLEAN, s \in Seeds :
          PyAudioSource_read(size, a, s) /\ Lifecycle
    \/ \E r \in SamplingRates, w \in SampleWidths, c \in ChannelCounts, d \in DataBuffers :
          StdinAudioSource_init(r, w, c, d) /\ Lifecycle
    \/ StdinAudioSource_open /\ Lifecycle
    \/ StdinAudioSource_close /\ Lifecycle
    \/ \E size \in 0..MaxSize : StdinAudioSource_read(size) /\ Lifecycle

SpecLifecycle == Init /\ [][NextLifecycle]_vars

\* A close() call is made on a source that is not open.
ClosesAgain == kind # "none" /\ NotOpen /\ call'.op = "close"

\* C11 as claimed: close() on a source that is already closed raises no error and
\* leaves the open flag, the read position, the buffer and the handle unchanged.
C11_Original ==
    [][ClosesAgain =>
          /\ ~IsError(ret')
          /\ UNCHANGED <<is_open, current_position_bytes, buffer, streamState>>]_vars

\* C11: close() on a source that is already closed raises no error and leaves the
\* open flag, the buffer, the input and the handle unchanged; the read position
\* is unchanged too, except that a BufferAudioSource is rewound to position 0.
C11_CloseAgain ==
    [][ClosesAgain =>
          /\ ~IsError(ret')
          /\ UNCHANGED <<params, is_open, buffer, streamState>>
          /\ current_position_bytes' = IF IsBuffer THEN 0 ELSE current_position_bytes]_vars

\* close() was called on a source that was not open (a BufferAudioSource with data,
\* or a WaveAudioSource, PyAudioSource or StdinAudioSource) and returned.
C11_Witness ==
    /\ kind \in {"buffer", "wave", "pyaudio", "stdin"}
    /\ call.op = "close"
    /\ ~hist.was_open
    /\ NotOpen
    /\ ret = None
    /\ IsBuffer => current_position_bytes = 0 /\ Len(buffer) > 0

\* C12: a read that returns data returns a whole number of frames: the length of
\* the data is a multiple of sample_width * channels, for every kind of source
\* and, for a StdinAudioSource, whatever number of bytes standard input delivers.
C12_WholeFrames ==
    (kind # "none" /\ call.op = "read" /\ ret.kind = "data")
        => Len(ret.data) % FrameSize = 0

\* The accessors of AudioSource.
get_sampling_rate == sampling_rate
get_sample_width == sample_width
get_channels == channels

\* A constructor is called.
Constructs ==
    /\ kind = "none"
    /\ call'.op \in {"BufferAudioSource", "WaveAudioSource", "PyAudioSource", "StdinAudioSource"}

\* C13: a constructor given a sample width outside {1, 2, 4} or a number of
\* channels other than 1 fails with AudioParameterError and constructs nothing; a
\* constructed source has sample_width in {1, 2, 4} and channels = 1; and the
\* accessors report the values given at construction after every later call.
C13_Parameters ==
    [][/\ (Constructs /\ (call'.width \notin {1, 2, 4} \/ call'.chans # 1))
            => IsParameterError(ret') /\ kind' = "none"
       /\ (Constructs /\ kind' # "none")
            => /\ get_sample_width' \in {1, 2, 4}
               /\ get_channels' = 1
               /\ <<get_sampling_rate', get_sample_width', get_channels'>>
                      = <<call'.arg, call'.width, call'.chans>>
       /\ kind # "none"
            => /\ kind' = kind
               /\ UNCHANGED <<get_sampling_rate, get_sample_width, get_channels>>]_vars

\* A source constructed with 4-byte samples has been opened and read
\* and still reports its parameters.
C13_Witness ==
    /\ kind \in {"wave", "stdin"}
    /\ call.op = "read"
    /\ ret.kind = "data"
    /\ get_sample_width = 4
    /\ get_channels = 1
    /\ get_sampling_rate = 3

\* An open() call is made on a source that is open.
OpensAgain == kind # "none" /\ ~NotOpen /\ call'.op = "open"

\* C20: open() on a source that is already open raises nothing, leaves the source
\* open, preserves the read position (buffer, position, file offset, pending
\* input) and acquires no second handle.
C20_OpenAgain ==
    [][OpensAgain =>
          /\ ~IsError(ret')
          /\ ~NotOpen'
          /\ UNCHANGED <<params, buffer, current_position_bytes, file, stdin>>
          /\ kind = "wave" => UNCHANGED audio_stream
          /\ handles' = handles]_vars

(***************************************************************************)
(* Audio formats and audio parameters.                                     *)
(***************************************************************************)
MaxParameter == 2

\* str.lower() on the format names and extensions that are used.
LowerCase == [RAW |-> "raw", WAV |-> "wav", Wave |-> "wave", OGG |-> "ogg"]
lower(s) == IF s \in DOMAIN LowerCase THEN LowerCase[s] ELSE s

\* os.path.splitext(filename.lower())[1][1:]
extension(filename) == lower(filename.ext)

guess_audio_format(fmt, filename) ==
    IF fmt = "None"
    THEN IF extension(filename) # "" THEN extension(filename) ELSE "None"
    ELSE lower(fmt)

\* Python's truth value, isinstance(v, int), dict.get(key, default), a or b.
Truthy(v) ==
    CASE v.type \in {"int", "float"} -> v.val # 0
      [] v.type = "str" -> v.val # ""
      [] OTHER -> FALSE
IsInt(v) == v.type = "int"
DictGet(d, key, default) == IF d[key].type = "absent" THEN default ELSE d[key]
Or(a, b) == IF Truthy(a) THEN a ELSE b

\* The result of a function that raised AudioParameterError.
ParameterError == [type |-> "AudioParameterError", val |-> 0]

normalize_use_channel(use_channel) ==
    IF use_channel.type = "None" THEN PyInt(0)
    ELSE IF use_channel = PyStr("mix") \/ IsInt(use_channel) THEN use_channel
    ELSE IF use_channel = PyStr("left") THEN PyInt(0)
    ELSE IF use_channel = PyStr("right") THEN PyInt(1)
    ELSE ParameterError

\* One round of the loop of _get_audio_parameters: the value of a parameter.
get_parameter(param_dict, long_name, short_name) ==
    Or(DictGet(param_dict, long_name, PyNone), DictGet(param_dict, short_name, PyNone))

\* The tuple _get_audio_parameters returns, or ParameterError when it raises.
get_audio_parameters(param_dict) ==
    LET rate == get_parameter(param_dict, "sampling_rate", "sr")
        width == get_parameter(param_dict, "sample_width", "sw")
        chans == get_parameter(param_dict, "channels", "ch")
        use_channel ==
            normalize_use_channel(
                DictGet(param_dict, "use_channel", DictGet(param_dict, "uc", PyInt(0))))
    IN  IF \E param \in {rate, width, chans} : param.type = "None" \/ ~IsInt(param)
        THEN ParameterError
        ELSE IF use_channel = ParameterError
        THEN ParameterError
        ELSE [sampling_rate |-> rate, sample_width |-> width, channels |-> chans,
              use_channel |-> use_channel]

(***************************************************************************)
(* Saving and loading files.  The disk holds one file; `how` tells which   *)
(* writer wrote it and `fmt` the format to_file resolved for it.           *)
(***************************************************************************)
\* Nothing has been called yet.
Fresh == call.op = "none"

\* Values given as keyword arguments.  Integers given under a short name are
\* positive; under a long name 0, None and values of other types occur too.
IntValues == { PyInt(n) : n \in 1..MaxParameter }
LongValues == {Absent, PyNone, PyInt(0), PyFloat(0), PyStr("2")} \cup IntValues
ShortValues == {Absent, PyStr("2")} \cup IntValues
Pairs == LongValues \X ShortValues
PlainPairs == {<<PyInt(1), Absent>>, <<Absent, PyInt(MaxParameter)>>}
UseChannelPairs ==
    {Absent, PyNone, PyInt(0), PyInt(1), PyStr("left"), PyStr("right"), PyStr("mix"),
     PyStr("x")} \X {Absent, PyInt(1), PyStr("mix")}

Kwargs(r, w, c, u) ==
    [sampling_rate |-> r[1], sr |-> r[2], sample_width |-> w[1], sw |-> w[2],
     channels |-> c[1], ch |-> c[2], use_channel |-> u[1], uc |-> u[2]]

\* Dictionaries in which at most one of the three integer parameters is given
\* in an unusual way.
ParameterTriples ==
    (Pairs \X PlainPairs \X PlainPairs) \cup (PlainPairs \X Pairs \X PlainPairs)
        \cup (PlainPairs \X PlainPairs \X Pairs)
ParameterDicts ==
    { Kwargs(t[1], t[2], t[3], u) : t \in ParameterTriples, u \in UseChannelPairs }
\* The keyword arguments of to_file: no argument at all, or two parameters given
\* plainly as 1 and the third in any way.
Plain == {<<PyInt(1), Absent>>}
SavedTriples ==
    (Pairs \X Plain \X Plain) \cup (Plain \X Pairs \X Plain) \cup (Plain \X Plain \X Pairs)
SavedDicts ==
    {NoKwargs} \cup
    { Kwargs(t[1], t[2], t[3], u) :
        t \in SavedTriples, u \in {<<Absent, Absent>>, <<PyStr("x"), Absent>>} }

\* The data saved: the two longest buffers.
SavedBuffers == { Data(0, n) : n \in (MaxDataLen - 1)..MaxDataLen }
Filenames == { Filename(e) : e \in {"", "raw", "WAV", "ogg"} }
AudioFormats == {"None", "RAW", "wav", "Wave", "OGG"}

\* Faulty variant: the last byte is not written.
save_raw_short(file_, data) ==
    [NoFile EXCEPT !.how = "raw", !.file = file_, !.data = Slice(data, 0, Len(data) - 1)]

save_raw(file_, data) == [NoFile EXCEPT !.how = "raw", !.file = file_, !.data = data]

\* Faulty variant: the sample width and the number of channels are exchanged.
save_wave_swapped(file_, data, rate, width, chans) ==
    [NoFile EXCEPT !.how = "wave", !.file = file_, !.data = data,
                   !.rate = rate, !.width = chans, !.chans = width]

save_wave(file_, data, rate, width, chans) ==
    [NoFile EXCEPT !.how = "wave", !.file = file_, !.data = data,
                   !.rate = rate, !.width = width, !.chans = chans]

save_with_pydub(file_, data, audio_format, rate, width, chans) ==
    [NoFile EXCEPT !.how = "pydub", !.file = file_, !.data = data,
                   !.rate = rate, !.width = width, !.chans = chans]

\* _get_audio_parameters(param_dict), called on its own.
GetAudioParameters(param_dict) ==
    /\ Fresh
    /\ call' = Call("get_audio_parameters", 0, NoData)
    /\ request' = [NoRequest EXCEPT !.kwargs = param_dict]
    /\ resolved' = get_audio_parameters(param_dict)
    /\ ret' = IF resolved' = ParameterError
              THEN Raised("AudioParameterError")
              ELSE Returned("tuple", NoData)
    /\ UNCHANGED <<sourceState, disk>>

\* to_file(data, file, audio_format, **kwargs), in an installation with or
\* without pydub; nothing has been saved before.
to_file(data, file_, audio_format, kwargs, with_pydub) ==
    LET fmt == guess_audio_format(audio_format, file_)
        parameters == get_audio_parameters(kwargs)
    IN  /\ Fresh
        /\ disk.how = "none"
        /\ call' = Call("to_file", 0, data)
        /\ request' = [NoRequest EXCEPT !.audio_format = audio_format, !.file = file_,
                                        !.kwargs = kwargs, !.with_pydub = with_pydub]
        /\ IF fmt \in {"None", "raw"}
           THEN /\ disk' = [save_raw(file_, data) EXCEPT !.fmt = fmt]
                /\ resolved' = NoParameters
                /\ ret' = None
           ELSE /\ resolved' = parameters
                /\ IF parameters = ParameterError
                   THEN /\ ret' = Raised("AudioParameterError")
                        /\ UNCHANGED disk
                   ELSE LET rate == parameters.sampling_rate.val
                            width == parameters.sample_width.val
                            chans == parameters.channels.val
                        IN  IF fmt \in {"wav", "wave"}
                            THEN /\ disk' = [save_wave(file_, data, rate, width, chans)
                                                EXCEPT !.fmt = fmt]
                                 /\ ret' = None
                            ELSE IF with_pydub
                            THEN /\ disk' = [save_with_pydub(file_, data, fmt, rate,
                                                             width, chans)
                                                EXCEPT !.fmt = fmt]
                                 /\ ret' = None
                            ELSE /\ ret' = Returned("AudioIOError", <<fmt, file_>>)
                                 /\ UNCHANGED disk
        /\ UNCHANGED sourceState

\* The names _extract_selected_channel and RawAudioSource are bound nowhere in
\* the module: evaluating either raises NameError.
extract_selected_channel(data, chans, width, use_channel) == Raised("NameError")
RawAudioSource == Raised("NameError")

\* BufferAudioSource(data, sampling_rate=rate, sample_width=width, channels=1),
\* as the last statement of a loader.
LoadBuffer(data, rate, width) ==
    IF AudioSource_init(width, 1) /\ check_audio_data(data, width, 1)
    THEN /\ kind' = "buffer"
         /\ sampling_rate' = rate
         /\ sample_width' = width
         /\ channels' = 1
         /\ buffer' = data
         /\ current_position_bytes' = 0
         /\ is_open' = FALSE
         /\ ret' = None
    ELSE /\ ret' = Raised("AudioParameterError")
         /\ UNCHANGED <<params, bufferState, is_open>>

\* _load_raw(file, sampling_rate, sample_width, channels, use_channel, large_file)
\* on the raw file on the disk.
load_raw(rate, width, chans, use_channel, large_file) ==
    /\ kind = "none"
    /\ disk.how = "raw"
    /\ call' = Call("load_raw", 0, disk.data)
    /\ request' = [NoRequest EXCEPT !.file = disk.file, !.sampling_rate = rate,
                                    !.sample_width = width, !.channels = chans,
                                    !.use_channel = use_channel,
                                    !.large_file = large_file]
    /\ IF \E param \in {rate, width, chans} : param.type = "None"
       THEN /\ ret' = Raised("AudioParameterError")
            /\ UNCHANGED <<params, bufferState, is_open>>
       ELSE IF large_file
       THEN /\ ret' = RawAudioSource
            /\ UNCHANGED <<params, bufferState, is_open>>
       ELSE IF chans.val # 1
       THEN /\ ret' = extract_selected_channel(disk.data, chans.val, width.val, use_channel)
            /\ UNCHANGED <<params, bufferState, is_open>>
       ELSE LoadBuffer(disk.data, rate.val, width.val)
    /\ UNCHANGED <<streamState, disk, resolved>>

\* _load_wave(filename, large_file, use_channel) on the wave file on the disk.
load_wave(large_file, use_channel) ==
    /\ kind = "none"
    /\ disk.how = "wave"
    /\ call' = Call("load_wave", 0, disk.data)
    /\ request' = [NoRequest EXCEPT !.file = disk.file, !.use_channel = use_channel,
                                    !.large_file = large_file]
    /\ IF large_file
       THEN \* WaveAudioSource(filename, use_channel): __init__ takes one argument
            /\ ret' = Raised("TypeError")
            /\ UNCHANGED <<params, bufferState, is_open>>
       ELSE LET frames == Len(disk.data) \div (disk.width * disk.chans)
                data == readframes(disk.data, 0, frames, disk.width * disk.chans)
            IN  IF disk.chans > 1
                THEN /\ ret' = extract_selected_channel(data, disk.chans, disk.width,
                                                        use_channel)
                     /\ UNCHANGED <<params, bufferState, is_open>>
                ELSE LoadBuffer(data, disk.rate, disk.width)
    /\ UNCHANGED <<streamState, disk, resolved>>

\* SpecFiles: one call of _get_audio_parameters, or one call of to_file followed
\* by one call of a loader on the file it wrote.
LoadedValues(S) == { PyInt(n) : n \in S }
UseChannels == { PyInt(n) : n \in 0..MaxParameter }
NoPlay == UNCHANGED <<hist, player>>

NextFiles ==
    \/ Fresh /\ \E d \in ParameterDicts : GetAudioParameters(d) /\ NoPlay
    \/ Fresh /\ \E d \in SavedBuffers, f \in Filenames, a \in AudioFormats,
                   k \in SavedDicts, p \in BOOLEAN :
                   to_file(d, f, a, k, p) /\ NoPlay
    \/ \E r \in {PyNone} \cup LoadedValues(SamplingRates), w \in LoadedValues(SampleWidths),
          c \in LoadedValues(ChannelCounts), u \in UseChannels, l \in BOOLEAN :
          load_raw(r, w, c, u, l) /\ NoPlay
    \/ \E l \in BOOLEAN, u \in UseChannels : load_wave(l, u) /\ NoPlay

SpecFiles == Init /\ [][NextFiles]_vars

\* The long and the short name of the three integer parameters.
ParameterNames ==
    {<<"sampling_rate", "sr">>, <<"sample_width", "sw">>, <<"channels", "ch">>}
\* An option is present: the dictionary has a value other than None for it.
Present(v) == v.type \notin {"absent", "None"}
\* The value given for a parameter: the one under the long name when there is
\* one (None counts as not given), else the one under the short name.
Given(d, long_name, short_name) ==
    IF Present(d[long_name]) THEN d[long_name] ELSE d[short_name]
MissingOrNotInteger(d) ==
    \E names \in ParameterNames : Given(d, names[1], names[2]).type # "int"
\* The format to_file resolved for its last call.
RequestedFormat == guess_audio_format(request.audio_format, request.file)

\* C14: to_file with a resolved format other than None / "raw" and one of
\* sampling_rate, sample_width, channels missing under both names or not an
\* integer raises AudioParameterError and creates no file.
C14_ParametersRequired ==
    (/\ call.op = "to_file"
     /\ RequestedFormat \notin {"None", "raw"}
     /\ MissingOrNotInteger(request.kwargs))
        => IsParameterError(ret) /\ disk = NoFile

\* C15: to_file routes by the resolved format.  None / "raw": the data is written
\* verbatim whatever the keyword arguments are.  Otherwise the parameters are
\* resolved (a failure is a parameter error and nothing is written), and "wav" /
\* "wave" is written by the wave writer with the resolved parameters, with or
\* without pydub; any other format is written by pydub when it is installed and
\* else fails with AudioIOError naming the format and the file, nothing written.
C15_Routing ==
    call.op = "to_file" =>
        LET fmt == RequestedFormat
            written(how) ==
                /\ ret = None
                /\ disk.how = how
                /\ disk.file = request.file
                /\ disk.data = call.data
            with_parameters ==
                <<disk.rate, disk.width, disk.chans>>
                    = <<resolved.sampling_rate.val, resolved.sample_width.val,
                        resolved.channels.val>>
        IN  IF fmt \in {"None", "raw"} THEN written("raw")
            ELSE IF resolved = ParameterError
            THEN IsParameterError(ret) /\ disk = NoFile
            ELSE IF fmt \in {"wav", "wave"} THEN written("wave") /\ with_parameters
            ELSE IF request.with_pydub
            THEN written("pydub") /\ with_parameters /\ disk.fmt = fmt
            ELSE /\ ret.kind = "AudioIOError"
                 /\ ret.data = <<fmt, request.file>>
                 /\ disk = NoFile

\* Without pydub, a wave file was written with a sample width given under the
\* short name, from a format given in capitals by the extension.
C15_Witness ==
    /\ call.op = "to_file"
    /\ ~request.with_pydub
    /\ request.audio_format = "None"
    /\ request.file.ext = "WAV"
    /\ disk.how = "wave"
    /\ disk.width = 2
    /\ request.kwargs.sw = PyInt(2)
    /\ Len(disk.data) > 0

\* to_file is called with format None and a file name without extension.
SavesRaw ==
    call'.op = "to_file" /\ request'.audio_format = "None" /\ request'.file.ext = ""
\* The file such a call wrote is loaded eagerly by _load_raw with three integers.
Reloads ==
    /\ disk.how = "raw" /\ disk.fmt = "None" /\ disk.file.ext = ""
    /\ call'.op = "load_raw"
    /\ ~request'.large_file
    /\ \A v \in {request'.sampling_rate, request'.sample_width, request'.channels} :
          v.type = "int"
Reloaded == ret' = None /\ kind' = "buffer" /\ buffer' = disk.data

\* C16 as claimed: for every buffer and every parameter triple, to_file with
\* format None and no extension writes the bytes unmodified and _load_raw then
\* returns a source holding the same bytes.
C16_Original ==
    [][/\ SavesRaw => ret' = None /\ disk'.how = "raw" /\ disk'.data = call'.data
       /\ Reloads => Reloaded]_vars

\* C16: to_file with format None and no extension writes the bytes unmodified,
\* and _load_raw then returns a source holding the same bytes when channels = 1,
\* sample_width is 1, 2 or 4 and the length is a multiple of sample_width.
C16_RoundTrip ==
    [][/\ SavesRaw => ret' = None /\ disk'.how = "raw" /\ disk'.data = call'.data
       /\ (/\ Reloads
           /\ request'.channels.val = 1
           /\ request'.sample_width.val \in {1, 2, 4}
           /\ Len(disk.data) % request'.sample_width.val = 0) => Reloaded]_vars

\* A buffer of 2-byte samples saved with format None and no extension has been
\* loaded back.
C16_Witness ==
    /\ call.op = "load_raw"
    /\ disk.how = "raw" /\ disk.fmt = "None" /\ disk.file.ext = ""
    /\ kind = "buffer"
    /\ get_sample_width = 2
    /\ Len(buffer) >= 2 * 2
    /\ buffer = disk.data

\* C17: when _get_audio_parameters returns and an option is present under both its
\* long and its short name, the value returned is the one under the long name
\* (normalised, for use_channel).
C17_LongNameWins ==
    (call.op = "get_audio_parameters" /\ ret.kind = "tuple") =>
        /\ \A names \in ParameterNames :
              (Present(request.kwargs[names[1]]) /\ Present(request.kwargs[names[2]]))
                  => resolved[names[1]] = request.kwargs[names[1]]
        /\ (Present(request.kwargs.use_channel) /\ Present(request.kwargs.uc))
              => resolved.use_channel = normalize_use_channel(request.kwargs.use_channel)

\* Channel i of interleaved data, frame by frame.
Channel(data, chans, width, i) ==
    [k \in 1..((Len(data) \div (width * chans)) * width) |->
        data[((k - 1) \div width) * width * chans + i * width + ((k - 1) % width) + 1]]

\* C18: an eager load of raw or wave data with more than one channel and an integer
\* use_channel i returns a BufferAudioSource with channels = 1 whose buffer is
\* channel i of the data, or raises an index error when i >= channels.
C18_SelectedChannel ==
    [][LET raw == call'.op = "load_raw"
           chans == IF raw THEN request'.channels.val ELSE disk.chans
           width == IF raw THEN request'.sample_width.val ELSE disk.width
           i == request'.use_channel.val
       IN  (/\ call'.op \in {"load_raw", "load_wave"}
            /\ ~request'.large_file
            /\ raw => request'.sampling_rate.type = "int"
            /\ chans > 1
            /\ width \in {1, 2, 4}
            /\ Len(disk.data) % (width * chans) = 0)
               => IF i < chans
                  THEN /\ ret' = None
                       /\ kind' = "buffer"
                       /\ get_channels' = 1
                       /\ buffer' = Channel(disk.data, chans, width, i)
                  ELSE ret'.kind = "IndexError"]_vars

(***************************************************************************)
(* PyAudioPlayer.  player.pc: "none" before construction, "idle" between   *)
(* calls, "writing" inside the loop of play(), "closed" after stop().      *)
(* written is what the stream has been given since play() began, chunk the *)
(* last chunk written, odd whether stream.write has been called an odd     *)
(* number of times since play() began.                                     *)
(***************************************************************************)
PlayerRates == {1, 5}

\* int((sampling_rate * sample_width * channels) / 10)
chunk_size(rate, width, chans) == IntTrunc(rate * width * chans, 10)

\* Faulty variant: a chunk runs one byte into the next one.
chunk_data_overlapping(data, start, size) == Slice(data, start, start + size + 1)

\* The chunk _chunk_data yields at offset start.
chunk_data(data, start, size) == Slice(data, start, start + size)

\* PyAudio opens an output stream started.
PyAudioPlayer_init(rate, width, chans) ==
    /\ player.pc = "none"
    /\ call' = [Call("PyAudioPlayer", rate, NoData) EXCEPT !.width = width, !.chans = chans]
    /\ IF width \notin {1, 2, 4}
       THEN /\ ret' = Raised("ValueError")
            /\ UNCHANGED player
       ELSE /\ player' = [NoPlayer EXCEPT !.pc = "idle", !.sampling_rate = rate,
                                          !.sample_width = width, !.channels = chans,
                                          !.stopped = FALSE]
            /\ ret' = None
    /\ UNCHANGED <<sourceState, fileState, hist>>

\* play(data) up to its loop: the stream is started if it is stopped.
play(data) ==
    /\ player.pc = "idle"
    /\ call' = Call("play", 0, data)
    /\ ret' = None
    /\ player' = [player EXCEPT !.pc = "writing", !.stopped = FALSE, !.data = data,
                                !.start = 0, !.written = NoData, !.chunk = NoData,
                                !.odd = FALSE]
    /\ UNCHANGED <<sourceState, fileState, hist>>

\* One round of the loop of play(): the next chunk is written to the stream.
write_chunk ==
    /\ player.pc = "writing"
    /\ player.start < Len(player.data)
    /\ LET size == chunk_size(player.sampling_rate, player.sample_width, player.channels)
           chunk == chunk_data(player.data, player.start, size)
       IN  player' = [player EXCEPT !.chunk = chunk, !.written = @ \o chunk,
                                   !.start = @ + size, !.odd = ~@]
    /\ UNCHANGED <<sourceState, fileState, hist, call, ret>>

\* The loop of play() is over: the stream is stopped and play() returns.
play_return ==
    /\ player.pc = "writing"
    /\ ~(player.start < Len(player.data))
    /\ player' = [player EXCEPT !.pc = "idle", !.stopped = TRUE]
    /\ UNCHANGED <<sourceState, fileState, hist, call, ret>>

PyAudioPlayer_stop ==
    /\ player.pc = "idle"
    /\ call' = Call("stop", 0, NoData)
    /\ ret' = None
    /\ player' = [player EXCEPT !.pc = "closed", !.stopped = TRUE]
    /\ UNCHANGED <<sourceState, fileState, hist>>

NextPlayer ==
    \/ \E r \in PlayerRates, w \in SampleWidths, c \in ChannelCounts :
          PyAudioPlayer_init(r, w, c)
    \/ \E d \in DataBuffers : play(d)
    \/ write_chunk
    \/ play_return
    \/ PyAudioPlayer_stop

SpecPlayer == Init /\ [][NextPlayer]_vars

\* C19: play(data) has the stream started while it writes; what it has written is
\* the beginning of data, in order, and the last chunk written has at most
\* sampling_rate * sample_width * channels / 10 bytes; when play() has returned
\* the stream is stopped and what was written is exactly data.
C19_Play ==
    /\ player.pc = "writing" =>
          /\ ~player.stopped
          /\ player.written = Slice(player.data, 0, Len(player.written))
          /\ player.written =
                Slice(player.written, 0, Len(player.written) - Len(player.chunk))
                    \o player.chunk
          /\ Len(player.chunk) * 10
                <= player.sampling_rate * player.sample_width * player.channels
    /\ (player.pc = "idle" /\ call.op = "play") =>
          /\ player.stopped
          /\ player.written = player.data

\* play() has returned after writing a buffer in more than two chunks.
C19_Witness ==
    /\ player.pc = "idle"
    /\ call.op = "play"
    /\ player.stopped
    /\ player.written = player.data
    /\ Len(player.chunk) >= 1
    /\ Len(player.data) > 2 * Len(player.chunk)

\* C21: on an open BufferAudioSource, read(size) with any size >= 0 returns the
\* end-marker exactly when the position is at or past the end of the buffer, and
\* otherwise the available bytes of the window; a read that returns the
\* end-marker leaves the position unchanged.
C21_EndMarker ==
    [][(IsBuffer /\ is_open /\ call'.op = "read" /\ call'.arg >= 0) =>
          LET pos == current_position_bytes
              window == Slice(buffer, pos, pos + call'.arg * FrameSize)
          IN  /\ (ret' = None) <=> (pos >= Len(buffer))
              /\ ret' # None => ret' = Returned("data", window)
              /\ ret' = None => UNCHANGED current_position_bytes]_vars

(***************************************************************************)
(* SpecSequential: a BufferAudioSource under every call it has, recording  *)
(* the runs of reads that follow an open().                                *)
(***************************************************************************)
NoRun(run) ==
    [hist EXCEPT !.run = run, !.from = 0, !.acc = NoData, !.reads = 0,
                 !.ended = FALSE, !.resumed = FALSE]

SequentialHistory ==
    LET op == call'.op
    IN  IF op = "open" THEN [NoRun("clean") EXCEPT !.from = current_position_bytes]
        ELSE IF op = "close" \/ hist.run = "none" THEN NoRun("none")
        ELSE IF op # "read" \/ call'.arg < 1 \/ hist.run = "dirty" THEN NoRun("dirty")
        ELSE IF ret'.kind = "data"
        THEN [hist EXCEPT !.acc = @ \o ret'.data, !.reads = @ + 1,
                          !.resumed = @ \/ hist.ended]
        ELSE [hist EXCEPT !.ended = TRUE]
Sequential == hist' = SequentialHistory /\ UNCHANGED <<fileState, player>>

NextSequential ==
    \/ \E d \in DataBuffers, r \in SamplingRates, w \in SampleWidths, c \in ChannelCounts :
          BufferAudioSource_init(d, r, w, c) /\ Sequential
    \/ BufferAudioSource_open /\ Sequential
    \/ BufferAudioSource_close /\ Sequential
    \/ \E size \in 0..MaxSize : BufferAudioSource_read(size) /\ Sequential
    \/ \E p \in (0 - 1)..MaxPosition : set_position(p) /\ Sequential
    \/ rewind /\ Sequential
    \/ \E t \in Times : set_time_position(t) /\ Sequential
    \/ \E d \in DataBuffers : set_data(d) /\ Sequential
    \/ \E d \in DataBuffers : append_data(d) /\ Sequential

SpecSequential == Init /\ [][NextSequential]_vars

\* What the reads of a clean run returned: consecutive pieces from the start of
\* the buffer, at most total_samples of them, the whole buffer once the
\* end-marker was returned, and nothing but the end-marker after it.
WholeBufferInOrder ==
    /\ hist.acc = Slice(buffer, 0, Len(hist.acc))
    /\ hist.reads <= TotalSamples
    /\ hist.ended => hist.acc = buffer
    /\ ~hist.resumed

\* C22 as claimed: from any open(), with only reads of size >= 1 after it, the
\* reads return the whole buffer in consecutive pieces, then the end-marker.
C22_Original == hist.run = "clean" => WholeBufferInOrder

\* C22: from an open() made at position 0, with only reads of size >= 1 after it,
\* the reads return consecutive pieces whose concatenation up to the first
\* end-marker is the whole buffer; at most total_samples reads return data, and
\* every read after the end-marker returns the end-marker.
C22_SequentialReads == (hist.run = "clean" /\ hist.from = 0) => WholeBufferInOrder

\* A buffer read whole in at least two pieces from position 0, then two reads that
\* returned the end-marker.
C22_Witness ==
    /\ hist.run = "clean" /\ hist.from = 0
    /\ hist.reads >= 2
    /\ hist.ended
    /\ hist.acc = buffer
    /\ call.op = "read" /\ ret = None

\* SpecPlayerFair: the player, with a play() that has begun running on: the next
\* round of its loop, or its return, is taken whenever it can be.
SpecPlayerFair == SpecPlayer /\ WF_vars(write_chunk) /\ WF_vars(play_return)

\* C23: play(data) terminates for every buffer and every player that can be
\* constructed: a play() that has entered its loop returns.
C23_PlayTerminates == (player.pc = "writing") ~> (player.pc = "idle")

\* C24: no handle leak.  When close() has been called on a WaveAudioSource or a
\* PyAudioSource no file or device handle is open, and none is open when the
\* construction of a WaveAudioSource has failed validation.
C24_NoHandleLeak ==
    /\ (kind \in {"wave", "pyaudio"} /\ call.op = "close") => handles = 0
    /\ (call.op = "WaveAudioSource" /\ IsParameterError(ret)) => handles = 0
====
